---- MODULE Spec2Model ----
(***************************************************************************)
(* Model of the forum image scraper (src/forum-image-scraper.py): main's   *)
(* loop over the configured threads, process_thread's pagination loop, the *)
(* ThreadPoolExecutor that runs download_image, and the incremental table  *)
(* printed through the update callback; and of the extraction loop of the  *)
(* search-result scraper (src/google-images-scraper.py), which submits a   *)
(* download per thumbnail and handles finished downloads while extracting. *)
(*                                                                         *)
(* Abstractions.  A candidate URL is a number of URLS; what the code reads *)
(* from the URL text is given by IsSvg (the '.svg' test) and UrlHash (the  *)
(* first 8 hex digits of the md5 of the text, a many-to-one map from URL   *)
(* strings to 32-bit values).  The HTML of a page is a number of Contents; *)
(* UrlsOf is the set of candidate URLs BeautifulSoup finds in it, so two   *)
(* different HTML texts can list the same URLs.  A file name               *)
(* p<page>_<hash><ext> is the record [page, hash, ext].  The byte count of *)
(* a success is kept as the string the rows store (str(info)).             *)
(***************************************************************************)
EXTENDS Integers, Sequences, FiniteSets, TLC

\* ------------------------------------------------------------- bounds
NumUrls == 3
MaxContent == 8
MaxPage == 2
MaxWorkersCfg == 2
MaxCandidates == 2
MaxThumbnails == 2

\* ------------------------------------------------- program constants
MinBodyBytes == 1000
HttpOk == 200

URLS == 1..NumUrls
Contents == 0..MaxContent
Folders == {1, 2}
\* minWidth and minHeight: 0 configures no minimum (35)
ConfiguredMinima == {0, 2}
\* the width or height of a decoded image: below, at and above the minimum
ImageSides == {1, 2, 3}
NoHtml == -1
PageError == -1
PageResponses == Contents \cup {PageError}
StartPages == 0..1
EndPages == 0..MaxPage
\* 237-238: no page number, the request goes to the thread URL itself
PageNone == -2
\* the page requests a run can make: a numbered page or the thread URL
Pages == StartPages \cup EndPages \cup {PageNone}

\* ------------------------------------------------ download_image (23-49)
IsSvg(url) == url % 3 = 0

Ext(url) == IF IsSvg(url) THEN ".svg" ELSE ".jpg"

UrlHash(url) == (url + 1) \div 2

Filename(url, page, url_hash) == [page |-> page, hash |-> url_hash, ext |-> Ext(url)]

ExcResponse ==
    [exc |-> TRUE, status_code |-> 0, length |-> 0, decodes |-> FALSE,
     width |-> 0, height |-> 0, io |-> "ok"]

Responses ==
    {ExcResponse} \cup
    { [exc |-> FALSE, status_code |-> s, length |-> n, decodes |-> d,
       width |-> w, height |-> h, io |-> io] :
        s \in {HttpOk, 204, 404}, n \in {0, MinBodyBytes, MinBodyBytes + 1},
        d \in BOOLEAN, w \in ImageSides \cup {0}, h \in ImageSides \cup {0},
        io \in {"ok", "open_error", "write_error"} }

\* A response is well formed when an undecodable body has no size and a
\* decodable one has a positive width and height.
WellFormed(r) ==
    \/ r.exc
    \/ ~r.decodes /\ r.width = 0 /\ r.height = 0
    \/ r.decodes /\ r.width > 0 /\ r.height > 0

ImageResponses == {r \in Responses : WellFormed(r)}

\* The responses of the runs of the whole pipeline, one of each kind
\* download_image tells apart: an exception, an error status, a short body, and
\* a long body with status 200 that is a small image, a large image, or no
\* image (which is written, or whose write fails).
Served(r) ==
    \/ r.exc
    \/ r.status_code = 404 /\ r.length = MinBodyBytes + 1 /\ ~r.decodes /\ r.io = "ok"
    \/ r.status_code = HttpOk /\ r.length = MinBodyBytes /\ ~r.decodes /\ r.io = "ok"
    \/ /\ r.status_code = HttpOk /\ r.length = MinBodyBytes + 1
       /\ \/ ~r.decodes /\ r.io \in {"ok", "write_error"}
          \/ r.decodes /\ r.io = "ok" /\ r.width = r.height /\ r.width \in {1, 2}

ServedResponses == {r \in ImageResponses : Served(r)}

ValidResponseAny2xx(r) == r.status_code \in 200..299 /\ r.length > MinBodyBytes

ValidResponseLax(r) == r.status_code = HttpOk /\ r.length >= MinBodyBytes

ValidResponse(r) == r.status_code = HttpOk /\ r.length > MinBodyBytes

ChecksResolution(url, minW, minH) == ~IsSvg(url) /\ (minW > 0 \/ minH > 0)

BelowMinimumBoth(r, minW, minH) ==
    (minW > 0 /\ r.width < minW) /\ (minH > 0 /\ r.height < minH)

BelowMinimum(r, minW, minH) ==
    (minW > 0 /\ r.width < minW) \/ (minH > 0 /\ r.height < minH)

DownloadImageDecodeRequired(url, page, url_hash, minW, minH, r) ==
    LET filename == Filename(url, page, url_hash) IN
    IF r.exc
    THEN [status |-> "error", filename |-> filename, info |-> "timeout", file |-> "none"]
    ELSE IF ValidResponse(r)
    THEN IF ChecksResolution(url, minW, minH) /\ ~r.decodes
         THEN [status |-> "error", filename |-> filename, info |-> "decode", file |-> "none"]
         ELSE IF ChecksResolution(url, minW, minH) /\ BelowMinimum(r, minW, minH)
         THEN [status |-> "too_small", filename |-> filename,
               info |-> ToString(r.width) \o "x" \o ToString(r.height), file |-> "none"]
         ELSE IF r.io = "open_error"
         THEN [status |-> "error", filename |-> filename, info |-> "open", file |-> "none"]
         ELSE IF r.io = "write_error"
         THEN [status |-> "error", filename |-> filename, info |-> "write", file |-> "partial"]
         ELSE [status |-> "success", filename |-> filename,
               info |-> ToString(r.length), file |-> "written"]
    ELSE [status |-> "failed", filename |-> filename, info |-> "Invalid response", file |-> "none"]

DownloadImage(url, page, url_hash, minW, minH, r) ==
    LET filename == Filename(url, page, url_hash) IN
    IF r.exc
    THEN [status |-> "error", filename |-> filename, info |-> "timeout", file |-> "none"]
    ELSE IF ValidResponse(r)
    THEN IF ChecksResolution(url, minW, minH) /\ r.decodes /\ BelowMinimum(r, minW, minH)
         THEN [status |-> "too_small", filename |-> filename,
               info |-> ToString(r.width) \o "x" \o ToString(r.height), file |-> "none"]
         ELSE IF r.io = "open_error"
         THEN [status |-> "error", filename |-> filename, info |-> "open", file |-> "none"]
         ELSE IF r.io = "write_error"
         THEN [status |-> "error", filename |-> filename, info |-> "write", file |-> "partial"]
         ELSE [status |-> "success", filename |-> filename,
               info |-> ToString(r.length), file |-> "written"]
    ELSE [status |-> "failed", filename |-> filename, info |-> "Invalid response", file |-> "none"]


\* ------------------------------------------------------------- state
VARIABLES
    \* configuration read by main (375-412)
    thread_urls, usePagination, startPage, endPage, minWidth, minHeight,
    maxWorkers, update_callback,
    \* environment: what each page request and each image request may return,
    \* whether a request is answered the same way each time it is repeated, and
    \* the files of each destination folder
    site, server, replay, disk,
    \* main (415-441)
    pc, thread_idx, all_table_rows, all_csv_rows, total_skipped, total_too_small,
    \* process_thread (182-264)
    folder, downloaded_hashes, table_rows, csv_rows, skipped_count, too_small_count,
    current_page, previous_html, page_label, page_table_rows, page_csv_rows,
    page_header_printed, last_printed_count,
    \* the ThreadPoolExecutor of one page (296-299)
    queue, running, completed,
    \* what was printed for the current page
    stdout,
    \* history: candidates found on the parsed pages of this run, image requests
    \* per URL in this run, the folder's files and the index when the run began,
    \* the index before the current page, the last page request and its result
    found, fetches, disk0, hashes0, hashes_before_page, last_fetch,
    \* one call of download_image taken on its own: its arguments, its result
    unit_in, unit_out,
    \* main's end (443-475): the rows of downloads_log.csv, the summary printed;
    \* history: the candidates found by all the runs so far, and the pages this
    \* run requested, in order
    audit_log, summary, all_found, requested,
    \* extract_and_download_images (google 329-346): the index of the last
    \* thumbnail processed, whether the table header was printed
    idx, header_printed

config == <<thread_urls, usePagination, startPage, endPage, minWidth, minHeight,
            maxWorkers, update_callback, replay>>
envVars == <<site, server>>
mainVars == <<thread_idx, all_table_rows, all_csv_rows, total_skipped, total_too_small>>
runVars == <<folder, table_rows, csv_rows, disk0, hashes0>>
pageVars == <<page_label, page_table_rows, page_csv_rows, page_header_printed,
              last_printed_count, stdout, hashes_before_page>>
poolVars == <<queue, running, completed>>
callVars == <<unit_in, unit_out>>
reportVars == <<audit_log, summary, all_found>>
googleVars == <<idx, header_printed>>
vars == <<config, callVars, googleVars, reportVars, requested, envVars, mainVars, runVars, pageVars, poolVars, pc, disk, downloaded_hashes,
          skipped_count, too_small_count, current_page, previous_html, found,
          fetches, last_fetch>>

\* ------------------------------------------------------------- helpers
UrlsOf(content) == {u \in URLS : (content \div (2 ^ (u - 1))) % 2 = 1}

SeedHashesNone(files) == {}

\* A file name of the folder's listing: its parts between the '_' characters,
\* without the extension, and the extension.  A part is a page label p<n>, an
\* identifier (a hash) or any other word.
PagePart(n) == [kind |-> "p", n |-> n]
IdPart(h) == [kind |-> "id", n |-> h]
WordPart == [kind |-> "word", n |-> 0]

\* 26-27: the name download_image gives a file, p<page>_<hash><ext>
NameOf(f) == [parts |-> <<PagePart(f.page), IdPart(f.hash)>>, ext |-> f.ext]

\* 196-202: of every listed name that ends with .jpg or .svg and has exactly
\* two '_' parts, the second part without its extension
HashPartsOf(listing) ==
    {existing_file.parts[2] :
        existing_file \in {g \in listing : g.ext \in {".jpg", ".svg"} /\ Len(g.parts) = 2}}

\* 194-202: the index after seeding from the files the scraper wrote earlier
SeedHashes(files) == {hash_part.n : hash_part \in HashPartsOf({NameOf(f) : f \in files})}

\* The environment after request `key` was answered with `answer`: when
\* requests are replayed, the same request gets the same answer from then on.
Answered(env, key, answer) ==
    IF replay THEN [env EXCEPT ![key] = {answer}] ELSE env

InfinitePagination == usePagination /\ (endPage = 0 \/ endPage < startPage)

NoFile == [page |-> 0, hash |-> 0, ext |-> ""]
NoFetch == [page |-> -1, result |-> PageError]
\* before main's end: no log file, no summary
NoLog == [written |-> "no", rows |-> <<>>]
NoSummary == [kind |-> "none", success |-> 0, skipped |-> 0, too_small |-> 0, failed |-> 0]

\* ------------------------------------------------- print_table (96-151)
HeaderLine == [kind |-> "header", file |-> NoFile, size |-> "", status |-> ""]
FooterLine == [kind |-> "footer", file |-> NoFile, size |-> "", status |-> ""]
RenderRow(r) == [kind |-> "row", file |-> r[1], size |-> r[2], status |-> r[3]]

FirstNewRowRestart(last_row_count) == 1

\* 141: range(last_row_count, len(rows)), as 1-based positions
FirstNewRow(last_row_count) == last_row_count + 1

PrintTable(rows, print_header_only, last_row_count) ==
    IF rows = <<>> /\ ~print_header_only THEN <<>>
    ELSE IF print_header_only THEN <<HeaderLine>>
    ELSE LET new == SubSeq(rows, FirstNewRow(last_row_count), Len(rows))
         IN  [i \in 1..Len(new) |-> RenderRow(new[i])]

\* ------------------------------------------------------------- Init
InitWith(threadLists, starts, ends, callbacks) ==
    /\ thread_urls \in threadLists
    /\ usePagination \in BOOLEAN
    /\ startPage \in starts
    /\ endPage \in ends
    /\ minWidth \in ConfiguredMinima
    /\ minHeight \in ConfiguredMinima
    /\ maxWorkers \in 1..MaxWorkersCfg
    /\ update_callback \in callbacks
    /\ thread_idx = 1
    /\ all_table_rows = <<>>
    /\ all_csv_rows = <<>>
    /\ total_skipped = 0
    /\ total_too_small = 0
    /\ folder = 1
    /\ downloaded_hashes = {}
    /\ table_rows = <<>>
    /\ csv_rows = <<>>
    /\ skipped_count = 0
    /\ too_small_count = 0
    /\ current_page = 0
    /\ previous_html = NoHtml
    /\ page_label = 0
    /\ page_table_rows = <<>>
    /\ page_csv_rows = <<>>
    /\ page_header_printed = FALSE
    /\ last_printed_count = 0
    /\ queue = {}
    /\ running = {}
    /\ completed = {}
    /\ stdout = <<>>
    /\ found = 0
    /\ fetches = [u \in URLS |-> 0]
    /\ disk0 = {}
    /\ hashes0 = {}
    /\ hashes_before_page = {}
    /\ last_fetch = NoFetch
    /\ audit_log = NoLog
    /\ summary = NoSummary
    /\ all_found = 0
    /\ requested = <<>>
    /\ idx = 0
    /\ header_printed = FALSE

\* ------------------------------------------------ process_thread (153-351)
\* 156-217: folder creation, the empty collections, the seeding of the index
ProcessThreadBegin ==
    /\ pc = "main"
    /\ thread_idx <= Len(thread_urls)
    /\ folder' = thread_urls[thread_idx]
    /\ downloaded_hashes' = SeedHashes(disk[thread_urls[thread_idx]])
    /\ table_rows' = <<>>
    /\ csv_rows' = <<>>
    /\ skipped_count' = 0
    /\ too_small_count' = 0
    /\ current_page' = startPage
    /\ previous_html' = NoHtml
    /\ page_table_rows' = <<>>
    /\ page_csv_rows' = <<>>
    /\ page_header_printed' = FALSE
    /\ last_printed_count' = 0
    /\ stdout' = <<>>
    /\ found' = 0
    /\ fetches' = [u \in URLS |-> 0]
    /\ disk0' = disk[thread_urls[thread_idx]]
    /\ hashes0' = SeedHashes(disk[thread_urls[thread_idx]])
    /\ hashes_before_page' = SeedHashes(disk[thread_urls[thread_idx]])
    /\ last_fetch' = NoFetch
    /\ requested' = <<>>
    /\ pc' = "loop"
    /\ UNCHANGED <<config, reportVars, googleVars, callVars, envVars, mainVars, poolVars, disk, page_label>>

\* 183: os.makedirs raises (no permission, a file in the way, a full disk);
\* neither process_thread nor main's loop (427-441) catches it, so the program
\* ends with the traceback
MakedirsFails ==
    /\ pc = "main"
    /\ thread_idx <= Len(thread_urls)
    /\ pc' = "crashed"
    /\ UNCHANGED <<config, reportVars, requested, googleVars, callVars, envVars, mainVars,
                   runVars, pageVars, poolVars, disk, downloaded_hashes, skipped_count,
                   too_small_count, current_page, previous_html, found, fetches,
                   last_fetch>>

PagesExhaustedNever == FALSE

PagesExhaustedEarly ==
    \/ ~usePagination /\ current_page > startPage
    \/ usePagination /\ ~InfinitePagination /\ current_page >= endPage

\* 219-235: the loop is left when the configured pages are exhausted
PagesExhausted ==
    \/ ~usePagination /\ current_page > startPage
    \/ usePagination /\ ~InfinitePagination /\ current_page > endPage

LoopBreak ==
    /\ pc = "loop"
    /\ PagesExhausted
    /\ pc' = "return"
    /\ UNCHANGED <<config, reportVars, requested, googleVars, callVars, envVars, mainVars, runVars, pageVars, poolVars, disk, downloaded_hashes,
                   skipped_count, too_small_count, current_page, previous_html, found,
                   fetches, last_fetch>>

PageOfTemplated == current_page

\* 221-240: the page number the URL is built from, none without pagination
PageOf == IF usePagination THEN current_page ELSE PageNone

\* The loop is about to request a page (open-ended pagination is followed up
\* to page MaxPage).
CanFetchPage ==
    /\ pc = "loop"
    /\ ~PagesExhausted
    /\ current_page <= MaxPage

FetchPageErrorAborts ==
    /\ CanFetchPage
    /\ PageError \in site[PageOf]
    /\ site' = Answered(site, PageOf, PageError)
    /\ last_fetch' = [page |-> PageOf, result |-> PageError]
    /\ requested' = Append(requested, PageOf)
    /\ pc' = "return"
    /\ UNCHANGED <<config, reportVars, googleVars, callVars, server, mainVars, runVars,
                   pageVars, poolVars, disk, downloaded_hashes, skipped_count,
                   too_small_count, current_page, previous_html, found, fetches>>

\* 242-255: the request raises, the page counter advances
FetchPageError ==
    /\ CanFetchPage
    /\ PageError \in site[PageOf]
    /\ site' = Answered(site, PageOf, PageError)
    /\ current_page' = current_page + 1
    /\ last_fetch' = [page |-> PageOf, result |-> PageError]
    /\ requested' = Append(requested, PageOf)
    /\ UNCHANGED <<config, reportVars, googleVars, callVars, server, mainVars, runVars, pageVars, poolVars, pc, disk,
                   downloaded_hashes, skipped_count, too_small_count, previous_html,
                   found, fetches>>

\* 247-250: the HTML equals the previous HTML
\* (the comparison by identity, "is", never finds two responses equal)
SameAsPreviousIdentity(html) == FALSE

SameAsPrevious(html) ==
    InfinitePagination /\ previous_html # NoHtml /\ html = previous_html

FetchPageRepeat ==
    /\ CanFetchPage
    /\ \E html \in site[PageOf] \ {PageError} :
        /\ SameAsPrevious(html)
        /\ site' = Answered(site, PageOf, html)
        /\ last_fetch' = [page |-> PageOf, result |-> html]
    /\ pc' = "return"
    /\ requested' = Append(requested, PageOf)
    /\ UNCHANGED <<config, reportVars, googleVars, callVars, server, mainVars, runVars, pageVars, poolVars, disk, downloaded_hashes,
                   skipped_count, too_small_count, current_page, previous_html, found,
                   fetches>>

IsDuplicateNever(url, hashes) == FALSE

\* 283-293: the candidates whose hash is not in the index become tasks
IsDuplicate(url, hashes) == UrlHash(url) \in hashes

TasksUnfiltered(urls, label, hashes) ==
    {[url |-> u, page |-> label, hash |-> UrlHash(u)] : u \in urls}

Tasks(urls, label, hashes) ==
    {[url |-> u, page |-> label, hash |-> UrlHash(u)] :
        u \in {v \in urls : ~IsDuplicate(v, hashes)}}

\* 251-297: the page is parsed, filtered, and its tasks are submitted
FetchPageOk ==
    /\ CanFetchPage
    /\ \E html \in site[PageOf] \ {PageError} :
        /\ ~SameAsPrevious(html)
        /\ found + Cardinality(UrlsOf(html)) <= MaxCandidates
        /\ LET label == IF usePagination THEN current_page ELSE 1
               urls == UrlsOf(html)
               tasks == Tasks(urls, label, downloaded_hashes)
           IN  /\ previous_html' = IF InfinitePagination THEN html ELSE NoHtml
               /\ page_label' = label
               /\ skipped_count' = skipped_count + Cardinality(urls) - Cardinality(tasks)
               /\ queue' = tasks
               /\ found' = found + Cardinality(urls)
               /\ last_fetch' = [page |-> PageOf, result |-> html]
               /\ site' = Answered(site, PageOf, html)
    /\ page_table_rows' = <<>>
    /\ page_csv_rows' = <<>>
    /\ page_header_printed' = FALSE
    /\ last_printed_count' = 0
    /\ stdout' = <<>>
    /\ hashes_before_page' = downloaded_hashes
    /\ pc' = "pool"
    /\ requested' = Append(requested, PageOf)
    /\ UNCHANGED <<config, reportVars, googleVars, callVars, server, mainVars, runVars, running, completed, disk, downloaded_hashes,
                   too_small_count, current_page, fetches>>


\* ------------------------------------------- ThreadPoolExecutor (296-297)
HasIdleWorkerOffByOne(n) == n <= maxWorkers

\* a task leaves the work queue only when fewer than max_workers units run
\* (the same executor in both programs: 296 and google 342)
HasIdleWorker(n) == n < maxWorkers

\* a worker thread takes a task and calls download_image: the request is sent
StartUnit ==
    /\ pc = "pool"
    /\ \E t \in queue :
        /\ HasIdleWorker(Cardinality(running))
        /\ queue' = queue \ {t}
        /\ running' = running \cup {t}
        /\ fetches' = [fetches EXCEPT ![t.url] = @ + 1]
    /\ UNCHANGED <<config, reportVars, requested, googleVars, callVars, envVars, mainVars, runVars, pageVars, completed, pc, disk,
                   downloaded_hashes, skipped_count, too_small_count, current_page,
                   previous_html, found, last_fetch>>

FinishUnitRecords ==
    /\ pc = "pool"
    /\ \E t \in running :
        \E r \in server[t.url] :
            LET res == DownloadImage(t.url, t.page, t.hash, minWidth, minHeight, r) IN
            /\ running' = running \ {t}
            /\ completed' = completed \cup
                  {[task |-> t, status |-> res.status, filename |-> res.filename,
                    info |-> res.info]}
            /\ disk' = [disk EXCEPT ![folder] =
                          IF res.file = "none" THEN @ ELSE @ \cup {res.filename}]
            /\ downloaded_hashes' = IF res.status = "success"
                                    THEN downloaded_hashes \cup {t.hash}
                                    ELSE downloaded_hashes
            /\ server' = Answered(server, t.url, r)
    /\ UNCHANGED <<config, reportVars, requested, googleVars, callVars, site, mainVars, runVars, pageVars, queue, pc,
                   skipped_count, too_small_count, current_page, previous_html, found,
                   fetches, last_fetch>>

\* download_image returns (31-49): the response is validated and the body written
FinishUnit ==
    /\ pc = "pool"
    /\ \E t \in running :
        \E r \in server[t.url] :
            LET res == DownloadImage(t.url, t.page, t.hash, minWidth, minHeight, r) IN
            /\ running' = running \ {t}
            /\ completed' = completed \cup
                  {[task |-> t, status |-> res.status, filename |-> res.filename,
                    info |-> res.info]}
            /\ disk' = [disk EXCEPT ![folder] =
                          IF res.file = "none" THEN @ ELSE @ \cup {res.filename}]
            /\ server' = Answered(server, t.url, r)
    /\ UNCHANGED <<config, reportVars, requested, googleVars, callVars, site, mainVars, runVars, pageVars, queue, pc, downloaded_hashes,
                   skipped_count, too_small_count, current_page, previous_html, found,
                   fetches, last_fetch>>

\* 305-306: which outcomes put their hash into the index
AddsHashAlways(status) == TRUE

AddsHash(status) == status = "success"

TableRowsOfSuccessOnly(c) ==
    IF c.status = "success" THEN <<<<c.filename, c.info, "OK">>>> ELSE <<>>

\* 305-317: the table row and the CSV row of an outcome
TableRowsOf(c) ==
    IF c.status = "success" THEN <<<<c.filename, c.info, "OK">>>>
    ELSE IF c.status = "too_small" THEN <<>>
    ELSE <<<<c.filename, "", c.status \o " " \o c.info>>>>

CsvRowsOfLikeTable(c) ==
    IF c.status = "success" THEN <<<<c.task.url, c.info, c.filename, "OK">>>>
    ELSE IF c.status = "too_small" THEN <<>>
    ELSE <<<<c.task.url, "", c.filename, c.status \o " " \o c.info>>>>

CsvRowsOfDropsError(c) ==
    IF c.status = "success" THEN <<<<c.task.url, c.info, c.filename, "OK">>>>
    ELSE IF c.status = "error" THEN <<>>
    ELSE <<<<c.task.url, "", c.filename, c.status \o " " \o c.info>>>>

CsvRowsOf(c) ==
    IF c.status = "success" THEN <<<<c.task.url, c.info, c.filename, "OK">>>>
    ELSE <<<<c.task.url, "", c.filename, c.status \o " " \o c.info>>>>

\* 299-327: the body of the as_completed loop for one finished future
HandleCompleted ==
    /\ pc = "pool"
    /\ \E c \in completed :
        LET rows == page_table_rows \o TableRowsOf(c)
            show == update_callback /\ rows # <<>>
            header == IF show /\ ~page_header_printed
                      THEN PrintTable(rows, TRUE, 0) ELSE <<>>
            body == IF show THEN PrintTable(rows, FALSE, last_printed_count) ELSE <<>>
        IN  /\ completed' = completed \ {c}
            /\ downloaded_hashes' = IF AddsHash(c.status)
                                    THEN downloaded_hashes \cup {c.task.hash}
                                    ELSE downloaded_hashes
            /\ too_small_count' = IF c.status = "too_small"
                                  THEN too_small_count + 1 ELSE too_small_count
            /\ page_table_rows' = rows
            /\ page_csv_rows' = page_csv_rows \o CsvRowsOf(c)
            /\ stdout' = stdout \o header \o body
            /\ page_header_printed' = (page_header_printed \/ show)
            /\ last_printed_count' = IF show THEN Len(rows) ELSE last_printed_count
    /\ UNCHANGED <<config, reportVars, requested, googleVars, callVars, envVars, mainVars, runVars, queue, running, pc, disk, skipped_count,
                   current_page, previous_html, found, fetches, last_fetch,
                   page_label, hashes_before_page>>

DrainedNoWait == TRUE

\* 299 and the end of the with block (296): every future was yielded and handled
Drained == queue = {} /\ running = {} /\ completed = {}

\* 329-348: the page's rows join the run's rows, the footer, the next page
PageDone ==
    /\ pc = "pool"
    /\ Drained
    /\ table_rows' = table_rows \o page_table_rows
    /\ csv_rows' = csv_rows \o page_csv_rows
    /\ stdout' = IF page_table_rows # <<>> THEN Append(stdout, FooterLine) ELSE stdout
    /\ current_page' = current_page + 1
    /\ pc' = "loop"
    /\ UNCHANGED <<config, reportVars, requested, googleVars, callVars, envVars, mainVars, poolVars, folder, disk0, hashes0, disk,
                   downloaded_hashes, skipped_count, too_small_count, previous_html,
                   found, fetches, last_fetch, page_label, page_table_rows,
                   page_csv_rows, page_header_printed, last_printed_count,
                   hashes_before_page>>

\* 351 and main 431-441: the thread's rows and counts join the totals
ProcessThreadReturn ==
    /\ pc = "return"
    /\ all_table_rows' = all_table_rows \o table_rows
    /\ all_csv_rows' = all_csv_rows \o csv_rows
    /\ total_skipped' = total_skipped + skipped_count
    /\ total_too_small' = total_too_small + too_small_count
    /\ thread_idx' = thread_idx + 1
    /\ all_found' = all_found + found
    /\ pc' = "main"
    /\ UNCHANGED <<config, audit_log, summary, requested, googleVars, callVars, envVars, runVars, pageVars, poolVars, disk, downloaded_hashes,
                   skipped_count, too_small_count, current_page, previous_html, found,
                   fetches, last_fetch>>

FailedCountAllRows(rows) == Len(rows)

\* 448-449: the rows whose status is the check mark, and the other rows
SuccessCount(rows) == Cardinality({i \in 1..Len(rows) : rows[i][3] = "OK"})

FailedCount(rows) == Len(rows) - SuccessCount(rows)

\* 443-475: every thread was processed: the summary and downloads_log.csv,
\* which is written inside the branch of a non-empty table and is lost when
\* the file cannot be opened (466-467)
MainSummary ==
    /\ pc = "main"
    /\ thread_idx > Len(thread_urls)
    /\ summary' = IF all_table_rows # <<>>
                  THEN [kind |-> "total", success |-> SuccessCount(all_table_rows),
                        skipped |-> total_skipped, too_small |-> total_too_small,
                        failed |-> FailedCount(all_table_rows)]
                  ELSE [kind |-> "no downloads", success |-> 0,
                        skipped |-> total_skipped, too_small |-> total_too_small,
                        failed |-> 0]
    /\ \E csv_opens \in BOOLEAN :
          audit_log' = IF all_table_rows # <<>> /\ all_csv_rows # <<>>
                       THEN IF csv_opens
                            THEN [written |-> "yes", rows |-> all_csv_rows]
                            ELSE [written |-> "failed", rows |-> <<>>]
                       ELSE NoLog
    /\ pc' = "done"
    /\ UNCHANGED <<config, all_found, requested, googleVars, callVars, envVars, mainVars,
                   runVars, pageVars, poolVars, disk, downloaded_hashes, skipped_count,
                   too_small_count, current_page, previous_html, found, fetches,
                   last_fetch>>

Next ==
    \/ ProcessThreadBegin
    \/ MakedirsFails
    \/ MainSummary
    \/ LoopBreak
    \/ FetchPageError
    \/ FetchPageRepeat
    \/ FetchPageOk
    \/ StartUnit
    \/ FinishUnit
    \/ HandleCompleted
    \/ PageDone
    \/ ProcessThreadReturn

NoCall == [url |-> 0, page |-> 0, response |-> ExcResponse]

\* One thread, any page responses and any image responses.  The images served
\* are square, so one minimum stands for both (download_image is run with
\* every pair of minima in SpecUnit).
Init ==
    /\ InitWith({<<1>>}, {1}, EndPages, {TRUE})
    /\ minWidth = minHeight
    /\ pc = "main"
    /\ disk = [d \in Folders |-> {}]
    /\ (~usePagination => endPage = 0)
    /\ replay = FALSE
    /\ site = [p \in Pages |-> PageResponses]
    /\ server = [u \in URLS |-> ServedResponses]
    /\ unit_in = NoCall
    /\ unit_out = {}

Spec == Init /\ [][Next]_vars

\* The worker threads run and download_image returns (the request has a
\* timeout, 31); the as_completed loop handles every future that is done and
\* the with block ends when all are.
PoolFairness ==
    /\ WF_vars(StartUnit)
    /\ WF_vars(FinishUnit)
    /\ WF_vars(HandleCompleted)
    /\ WF_vars(PageDone)

\* A paginated run, over the pages 1..MaxPage or open-ended, with a full pool.
InitFair ==
    /\ Init
    /\ usePagination
    /\ endPage \in {0, MaxPage}
    /\ maxWorkers = MaxWorkersCfg
    /\ minWidth > 0

SpecFair == InitFair /\ [][Next]_vars /\ PoolFairness


\* 219-255: the coordinating thread takes the next pass of the while loop; the
\* page request returns or raises within its timeout (243)
PageStep == LoopBreak \/ FetchPageError \/ FetchPageRepeat \/ FetchPageOk

\* A run in any of the three modes, with a full pool.
InitTerm ==
    /\ Init
    /\ endPage \in {0, MaxPage}
    /\ maxWorkers = MaxWorkersCfg
    /\ minWidth > 0

SpecTerm == InitTerm /\ [][Next]_vars /\ PoolFairness /\ WF_vars(PageStep)


\* ------------------------------------------ download_image on its own
\* One call of either download_image with any URL, any minima and any response.
InitUnit ==
    /\ InitWith({<<1>>}, {1}, {0}, {TRUE})
    /\ pc = "main"
    /\ disk = [d \in Folders |-> {}]
    /\ usePagination
    /\ maxWorkers = 1
    /\ replay = FALSE
    /\ site = [p \in Pages |-> PageResponses]
    /\ server = [u \in URLS |-> ServedResponses]
    /\ unit_in \in [url : URLS, page : {1}, response : ImageResponses]
    /\ unit_out = {}

CallDownloadImage ==
    /\ pc = "main"
    /\ unit_out = {}
    /\ LET res == DownloadImage(unit_in.url, unit_in.page, UrlHash(unit_in.url),
                                minWidth, minHeight, unit_in.response)
       IN  /\ unit_out' = {res}
           /\ disk' = [disk EXCEPT ![1] =
                         IF res.file = "none" THEN @ ELSE @ \cup {res.filename}]
    /\ UNCHANGED <<config, reportVars, requested, googleVars, envVars, mainVars, runVars, pageVars, poolVars, pc, downloaded_hashes,
                   skipped_count, too_small_count, current_page, previous_html, found,
                   fetches, last_fetch, unit_in>>


\* ------------------------------------------ the seeding on its own
SeedParts == {PagePart(1), WordPart} \cup {IdPart(UrlHash(u)) : u \in URLS}

\* the names a folder may hold: one to three parts, an image or another extension
FolderNames ==
    {[parts |-> ps, ext |-> e] :
        ps \in UNION {[1..n -> SeedParts] : n \in 1..3}, e \in {".jpg", ".svg", ".png"}}

\* One seeding of the index from a folder that lists one or two names.
InitSeed ==
    /\ InitWith({<<1>>}, {1}, {0}, {TRUE})
    /\ pc = "main"
    /\ disk = [d \in Folders |-> {}]
    /\ usePagination
    /\ maxWorkers = 1
    /\ minWidth = 0
    /\ minHeight = 0
    /\ replay = FALSE
    /\ site = [p \in Pages |-> PageResponses]
    /\ server = [u \in URLS |-> ServedResponses]
    /\ \E a, b \in FolderNames : unit_in = {a, b}
    /\ unit_out = {}

CallSeed ==
    /\ pc = "main"
    /\ unit_out = {}
    /\ unit_out' = {HashPartsOf(unit_in)}
    /\ UNCHANGED <<config, reportVars, requested, googleVars, envVars, mainVars, runVars,
                   pageVars, poolVars, pc, disk, downloaded_hashes, skipped_count,
                   too_small_count, current_page, previous_html, found, fetches,
                   last_fetch, unit_in>>

SpecSeed == InitSeed /\ [][CallSeed]_vars

\* ------------------------------------------------ the same source twice
\* The thread is listed twice; every page and every image URL answers the same
\* way each time it is requested.
InitRerun ==
    /\ InitWith({<<1, 1>>}, {1}, {0, MaxPage}, {TRUE})
    /\ pc = "main"
    /\ disk = [d \in Folders |-> {}]
    /\ usePagination
    /\ maxWorkers = MaxWorkersCfg
    /\ minWidth = minHeight
    /\ replay = TRUE
    /\ site = [p \in Pages |-> PageResponses]
    /\ server = [u \in URLS |-> ServedResponses]
    /\ unit_in = NoCall
    /\ unit_out = {}

SpecRerun == InitRerun /\ [][Next]_vars

\* ==================== src/google-images-scraper.py: the search-result scraper
\* ------------------------------------------------ download_image (29-66)
IsPng(url) == url % 4 = 2

IsGif(url) == url % 4 = 0

\* 36-43: the extension, the first test that matches
GoogleExt(url) ==
    IF IsSvg(url) THEN ".svg"
    ELSE IF IsPng(url) THEN ".png"
    ELSE IF IsGif(url) THEN ".gif"
    ELSE ".jpg"

\* 45: img_<index>_<hash><ext>
GoogleFilename(url, index, url_hash) ==
    [page |-> index, hash |-> url_hash, ext |-> GoogleExt(url)]

GoogleDownloadImage(url, index, url_hash, minW, minH, r) ==
    LET filename == GoogleFilename(url, index, url_hash) IN
    IF r.exc
    THEN [status |-> "error", filename |-> filename, info |-> "timeout", file |-> "none"]
    ELSE IF r.status_code = HttpOk /\ r.length > MinBodyBytes
    THEN IF /\ ~IsSvg(url) /\ (minW > 0 \/ minH > 0)
            /\ r.decodes
            /\ ((minW > 0 /\ r.width < minW) \/ (minH > 0 /\ r.height < minH))
         THEN [status |-> "too_small", filename |-> filename,
               info |-> ToString(r.width) \o "x" \o ToString(r.height), file |-> "none"]
         ELSE IF r.io = "open_error"
         THEN [status |-> "error", filename |-> filename, info |-> "open", file |-> "none"]
         ELSE IF r.io = "write_error"
         THEN [status |-> "error", filename |-> filename, info |-> "write", file |-> "partial"]
         ELSE [status |-> "success", filename |-> filename,
               info |-> ToString(r.length), file |-> "written"]
    ELSE [status |-> "failed", filename |-> filename, info |-> "Invalid response", file |-> "none"]

\* One call of the search-result scraper's download_image.
CallGoogleDownloadImage ==
    /\ pc = "main"
    /\ unit_out = {}
    /\ LET res == GoogleDownloadImage(unit_in.url, unit_in.page, UrlHash(unit_in.url),
                                      minWidth, minHeight, unit_in.response)
       IN  /\ unit_out' = {res}
           /\ disk' = [disk EXCEPT ![1] =
                         IF res.file = "none" THEN @ ELSE @ \cup {res.filename}]
    /\ UNCHANGED <<config, reportVars, requested, googleVars, envVars, mainVars, runVars, pageVars, poolVars, pc,
                   downloaded_hashes, skipped_count, too_small_count, current_page,
                   previous_html, found, fetches, last_fetch, unit_in>>

CallNext == CallDownloadImage \/ CallGoogleDownloadImage

SpecUnit == InitUnit /\ [][CallNext]_vars

\* ------------------------------------------------- print_table (471-511)
GooglePrintTable(rows, print_header_only, last_row_count) ==
    IF rows = <<>> /\ ~print_header_only THEN <<>>
    ELSE IF print_header_only THEN <<HeaderLine>>
    ELSE LET new == SubSeq(rows, last_row_count + 1, Len(rows))
         IN  [i \in 1..Len(new) |-> RenderRow(new[i])]

\* ------------------------------ extract_and_download_images (323-468)
\* the variables of the forum scraper that this program does not have
forumVars == <<mainVars, folder, page_label, page_table_rows, page_csv_rows,
               page_header_printed, hashes_before_page, current_page, previous_html,
               last_fetch, site>>

\* 333-339: the third '_' part of every existing image file name, up to its '.'
GoogleSeedHashes(files) ==
    {f.hash : f \in {g \in files : g.ext \in {".jpg", ".png", ".gif", ".svg"}}}

\* 323-344: the empty collections, the seeding of the index, the executor
GoogleBegin ==
    /\ pc = "g_main"
    /\ downloaded_hashes' = GoogleSeedHashes(disk[folder])
    /\ table_rows' = <<>>
    /\ csv_rows' = <<>>
    /\ skipped_count' = 0
    /\ too_small_count' = 0
    /\ header_printed' = FALSE
    /\ last_printed_count' = 0
    /\ idx' = 0
    /\ stdout' = <<>>
    /\ found' = 0
    /\ fetches' = [u \in URLS |-> 0]
    /\ disk0' = disk[folder]
    /\ hashes0' = GoogleSeedHashes(disk[folder])
    /\ pc' = "g_extract"
    /\ UNCHANGED <<config, reportVars, requested, callVars, forumVars, server, poolVars, disk>>

\* The loop over the thumbnails is at a thumbnail (at most MaxThumbnails are
\* followed).
AtThumbnail == pc = "g_extract" /\ idx < MaxThumbnails

\* 366-370, 418-422, 431-435: the header once, then the rows not yet printed
GoogleUpdateTable(rows) ==
    (IF header_printed THEN <<>> ELSE GooglePrintTable(rows, TRUE, 0))
        \o GooglePrintTable(rows, FALSE, last_printed_count)

\* a row is appended by the extraction loop itself and the table is updated
GoogleAppendRow(table_row, csv_row) ==
    /\ table_rows' = Append(table_rows, table_row)
    /\ csv_rows' = Append(csv_rows, csv_row)
    /\ stdout' = stdout \o GoogleUpdateTable(Append(table_rows, table_row))
    /\ header_printed' = TRUE
    /\ last_printed_count' = Len(table_rows) + 1

\* 411-422: the click raised TimeoutException; the row names img_<idx>_timeout
\* and the CSV row carries the thumbnail's own URL (0: not a candidate URL)
GoogleClickTimeout ==
    /\ AtThumbnail
    /\ idx' = idx + 1
    /\ GoogleAppendRow(<<[page |-> idx + 1, hash |-> 0, ext |-> "timeout"], "", "timeout">>,
                       <<0, "", [page |-> idx + 1, hash |-> 0, ext |-> "timeout"], "timeout">>)
    /\ UNCHANGED <<config, reportVars, requested, callVars, forumVars, server, poolVars, pc, disk, disk0, hashes0,
                   downloaded_hashes, skipped_count, too_small_count, found, fetches>>

\* 423-435: the click or the lookup of the full image raised another exception
GoogleClickError ==
    /\ AtThumbnail
    /\ idx' = idx + 1
    /\ GoogleAppendRow(<<[page |-> idx + 1, hash |-> 0, ext |-> "error"], "", "error - msg">>,
                       <<0, "", [page |-> idx + 1, hash |-> 0, ext |-> "error"], "error: msg">>)
    /\ UNCHANGED <<config, reportVars, requested, callVars, forumVars, server, poolVars, pc, disk, disk0, hashes0,
                   downloaded_hashes, skipped_count, too_small_count, found, fetches>>

\* 354-371: the full image's hash is in the index
GoogleDuplicate ==
    /\ AtThumbnail
    /\ \E src \in URLS :
        /\ UrlHash(src) \in downloaded_hashes
        /\ GoogleAppendRow(
              <<[page |-> idx + 1, hash |-> UrlHash(src), ext |-> ""], "existing",
                "already downloaded">>,
              <<src, "", [page |-> idx + 1, hash |-> UrlHash(src), ext |-> ""],
                "already downloaded">>)
    /\ idx' = idx + 1
    /\ skipped_count' = skipped_count + 1
    /\ found' = found + 1
    /\ UNCHANGED <<config, reportVars, requested, callVars, forumVars, server, poolVars, pc, disk, disk0, hashes0,
                   downloaded_hashes, too_small_count, fetches>>

\* 354-376: the hash is not in the index; the download is submitted
GoogleSubmit ==
    /\ AtThumbnail
    /\ \E src \in URLS :
        /\ UrlHash(src) \notin downloaded_hashes
        /\ LET t == [url |-> src, page |-> idx + 1, hash |-> UrlHash(src)]
           IN  queue' = queue \cup {t}
    /\ idx' = idx + 1
    /\ found' = found + 1
    /\ pc' = "g_poll"
    /\ UNCHANGED <<config, reportVars, requested, callVars, forumVars, server, running, completed, disk, disk0,
                   hashes0, table_rows, csv_rows, stdout, header_printed,
                   last_printed_count, downloaded_hashes, skipped_count, too_small_count,
                   fetches>>

\* 387-399, 444-456: the table row and the CSV row of an outcome
GoogleTableRowsOf(c) ==
    IF c.status = "success" THEN <<<<c.filename, c.info, "OK">>>>
    ELSE IF c.status = "too_small" THEN <<>>
    ELSE <<<<c.filename, "", c.status \o " " \o c.info>>>>

GoogleCsvRowsOf(c) ==
    IF c.status = "success" THEN <<<<c.task.url, c.info, c.filename, "OK">>>>
    ELSE <<<<c.task.url, "", c.filename, c.status \o " " \o c.info>>>>

\* the collections the handling of an outcome reads and writes
Recorded ==
    [hashes |-> downloaded_hashes, too_small |-> too_small_count, table |-> table_rows,
     csv |-> csv_rows, out |-> stdout, header |-> header_printed,
     last |-> last_printed_count]

\* 385-407 and 442-464: the outcome of a finished future is recorded
GoogleRecordOutcome(st, c) ==
    LET rows == st.table \o GoogleTableRowsOf(c)
        show == rows # <<>>
    IN  [hashes |-> IF c.status = "success" THEN st.hashes \cup {c.task.hash}
                    ELSE st.hashes,
         too_small |-> IF c.status = "too_small" THEN st.too_small + 1 ELSE st.too_small,
         table |-> rows,
         csv |-> st.csv \o GoogleCsvRowsOf(c),
         out |-> st.out \o
                 (IF show
                  THEN (IF st.header THEN <<>> ELSE GooglePrintTable(rows, TRUE, 0))
                           \o GooglePrintTable(rows, FALSE, st.last)
                  ELSE <<>>),
         header |-> (st.header \/ show),
         last |-> IF show THEN Len(rows) ELSE st.last]

\* 379: the keys are visited in insertion order, the order of submission
RECURSIVE GoogleRecordAll(_, _)
GoogleRecordAll(st, cs) ==
    IF cs = {} THEN st
    ELSE LET c == CHOOSE x \in cs : \A o \in cs : x.task.page <= o.task.page
         IN  GoogleRecordAll(GoogleRecordOutcome(st, c), cs \ {c})

GoogleStore(st) ==
    /\ downloaded_hashes' = st.hashes
    /\ too_small_count' = st.too_small
    /\ table_rows' = st.table
    /\ csv_rows' = st.csv
    /\ stdout' = st.out
    /\ header_printed' = st.header
    /\ last_printed_count' = st.last

GooglePollKeeps ==
    /\ pc = "g_poll"
    /\ GoogleStore(GoogleRecordAll(Recorded, completed))
    /\ pc' = "g_extract"
    /\ UNCHANGED <<config, reportVars, requested, callVars, forumVars, server, poolVars, disk, disk0, hashes0,
                   skipped_count, found, fetches, idx>>

\* 379-409: one pass over the futures of the dictionary: every future that is
\* done leaves the dictionary and its outcome is recorded; the others stay.
\* (A future that becomes done during the pass after it was looked at is one
\* that becomes done after the pass.)
GooglePoll ==
    /\ pc = "g_poll"
    /\ GoogleStore(GoogleRecordAll(Recorded, completed))
    /\ completed' = {}
    /\ pc' = "g_extract"
    /\ UNCHANGED <<config, reportVars, requested, callVars, forumVars, server, queue, running, disk, disk0, hashes0,
                   skipped_count, found, fetches, idx>>

\* 346: the list of thumbnails is exhausted
GoogleThumbnailsEnd ==
    /\ pc = "g_extract"
    /\ pc' = "g_drain"
    /\ UNCHANGED <<config, reportVars, requested, googleVars, callVars, forumVars, server, poolVars, disk, disk0,
                   hashes0, table_rows, csv_rows, stdout, last_printed_count,
                   downloaded_hashes, skipped_count, too_small_count, found, fetches>>

\* 438-466: as_completed yields a remaining future when it is done
GoogleDrain ==
    /\ pc = "g_drain"
    /\ \E c \in completed :
        /\ GoogleStore(GoogleRecordOutcome(Recorded, c))
        /\ completed' = completed \ {c}
    /\ UNCHANGED <<config, reportVars, requested, callVars, forumVars, server, queue, running, pc, disk, disk0,
                   hashes0, skipped_count, found, fetches, idx>>

\* 468 and main 616-632: every future was yielded; the footer closes the table
GoogleReturn ==
    /\ pc = "g_drain"
    /\ queue = {} /\ running = {} /\ completed = {}
    /\ stdout' = IF table_rows # <<>> THEN Append(stdout, FooterLine) ELSE stdout
    /\ pc' = "g_return"
    /\ UNCHANGED <<config, reportVars, requested, googleVars, callVars, forumVars, server, poolVars, disk, disk0,
                   hashes0, table_rows, csv_rows, last_printed_count, downloaded_hashes,
                   skipped_count, too_small_count, found, fetches>>

\* main 639-640: the rows with the check mark, and all the other table rows
GoogleSuccessCount(rows) == Cardinality({i \in 1..Len(rows) : rows[i][3] = "OK"})

GoogleFailedCount(rows) == Len(rows) - GoogleSuccessCount(rows)

\* main 634-660: the summary line and downloads_log.csv, both inside the
\* branch of a non-empty table; the log is lost when the file cannot be opened
GoogleSummary ==
    /\ pc = "g_return"
    /\ summary' = IF table_rows # <<>>
                  THEN [kind |-> "total", success |-> GoogleSuccessCount(table_rows),
                        skipped |-> skipped_count, too_small |-> too_small_count,
                        failed |-> GoogleFailedCount(table_rows)]
                  ELSE [kind |-> "no downloads", success |-> 0, skipped |-> 0,
                        too_small |-> 0, failed |-> 0]
    /\ \E csv_opens \in BOOLEAN :
          audit_log' = IF table_rows # <<>> /\ csv_rows # <<>>
                       THEN IF csv_opens
                            THEN [written |-> "yes", rows |-> csv_rows]
                            ELSE [written |-> "failed", rows |-> <<>>]
                       ELSE NoLog
    /\ pc' = "g_done"
    /\ UNCHANGED <<config, all_found, requested, googleVars, callVars, forumVars, server,
                   poolVars, disk, disk0, hashes0, table_rows, csv_rows, stdout,
                   last_printed_count, downloaded_hashes, skipped_count, too_small_count,
                   found, fetches>>

\* 342: the executor lives from the first thumbnail to the end of the drain
GoogleExecutorOpen == pc \in {"g_extract", "g_poll", "g_drain"}

\* 342, 374: a worker thread takes a submitted task and calls download_image
GoogleStartUnit ==
    /\ GoogleExecutorOpen
    /\ \E t \in queue :
        /\ HasIdleWorker(Cardinality(running))
        /\ queue' = queue \ {t}
        /\ running' = running \cup {t}
        /\ fetches' = [fetches EXCEPT ![t.url] = @ + 1]
    /\ UNCHANGED <<config, reportVars, requested, googleVars, callVars, forumVars, server, completed, pc, disk,
                   disk0, hashes0, table_rows, csv_rows, stdout, last_printed_count,
                   downloaded_hashes, skipped_count, too_small_count, found>>

\* download_image returns (48-66): the future is done
GoogleFinishUnit ==
    /\ GoogleExecutorOpen
    /\ \E t \in running :
        \E r \in server[t.url] :
            LET res == GoogleDownloadImage(t.url, t.page, t.hash, minWidth, minHeight, r) IN
            /\ running' = running \ {t}
            /\ completed' = completed \cup
                  {[task |-> t, status |-> res.status, filename |-> res.filename,
                    info |-> res.info]}
            /\ disk' = [disk EXCEPT ![folder] =
                          IF res.file = "none" THEN @ ELSE @ \cup {res.filename}]
            /\ server' = Answered(server, t.url, r)
    /\ UNCHANGED <<config, reportVars, requested, googleVars, callVars, forumVars, queue, pc, disk0, hashes0,
                   table_rows, csv_rows, stdout, last_printed_count, downloaded_hashes,
                   skipped_count, too_small_count, found, fetches>>

GoogleNext ==
    \/ GoogleBegin
    \/ GoogleClickTimeout
    \/ GoogleClickError
    \/ GoogleDuplicate
    \/ GoogleSubmit
    \/ GooglePoll
    \/ GoogleThumbnailsEnd
    \/ GoogleDrain
    \/ GoogleReturn
    \/ GoogleSummary
    \/ GoogleStartUnit
    \/ GoogleFinishUnit

\* The destination folder is empty or holds one image of an earlier search.
EarlierFiles == {{}, {[page |-> 1, hash |-> 1, ext |-> ".jpg"]}}

\* The responses of a search run, one for each outcome of download_image: an
\* exception, a short body, a body that is written, and a small image.
GoogleServed(r) ==
    \/ r.exc
    \/ r.status_code = HttpOk /\ r.length = MinBodyBytes /\ ~r.decodes /\ r.io = "ok"
    \/ /\ r.status_code = HttpOk /\ r.length = MinBodyBytes + 1
       /\ r.io = "ok"
       /\ (r.decodes => r.width = 1 /\ r.height = 1)

GoogleServedResponses == {r \in ImageResponses : GoogleServed(r)}

InitGoogle ==
    /\ InitWith({<<1>>}, {1}, {0}, {TRUE})
    /\ ~usePagination
    /\ minWidth = minHeight
    /\ pc = "g_main"
    /\ \E files \in EarlierFiles : disk = [d \in Folders |-> IF d = 1 THEN files ELSE {}]
    /\ replay = FALSE
    /\ site = [p \in Pages |-> PageResponses]
    /\ server = [u \in URLS |-> GoogleServedResponses]
    /\ unit_in = NoCall
    /\ unit_out = {}

SpecGoogle == InitGoogle /\ [][GoogleNext]_vars

\* ------------------------------------------------ either of the two programs
InitPools == Init \/ InitGoogle

NextPools == Next \/ GoogleNext

SpecPools == InitPools /\ [][NextPools]_vars

\* ------------------------------------------------ two sources in one run
\* The pages of the two threads: a failed request, a page that lists URL 1,
\* a page that lists URLs 1 and 3.
SourcePages == {PageError, 1, 5}

\* Two threads with their own folders, one worker, and one response for each
\* outcome of download_image.
InitSources ==
    /\ InitWith({<<1, 2>>}, {1}, {0, MaxPage}, {TRUE})
    /\ pc = "main"
    /\ disk = [d \in Folders |-> {}]
    /\ usePagination
    /\ maxWorkers = 1
    /\ minWidth = 2
    /\ minHeight = 2
    /\ replay = FALSE
    /\ site = [p \in Pages |-> SourcePages]
    /\ server = [u \in URLS |-> GoogleServedResponses]
    /\ unit_in = NoCall
    /\ unit_out = {}

SpecSources == InitSources /\ [][Next]_vars

\* ------------------------------------------------ every configured range
\* One thread with any startPage and endPage, with and without pagination.
InitRange ==
    /\ InitWith({<<1>>}, StartPages, EndPages, {TRUE})
    /\ pc = "main"
    /\ disk = [d \in Folders |-> {}]
    /\ maxWorkers = MaxWorkersCfg
    /\ minWidth = minHeight
    /\ replay = FALSE
    /\ site = [p \in Pages |-> PageResponses]
    /\ server = [u \in URLS |-> ServedResponses]
    /\ unit_in = NoCall
    /\ unit_out = {}

SpecRange == InitRange /\ [][Next]_vars

\* ------------------------------------------------ with or without a callback
\* process_thread is called with an update callback, as main does (434), or
\* without one, the default of the parameter (153).
InitCallback ==
    /\ InitWith({<<1>>}, {1}, EndPages, BOOLEAN)
    /\ minWidth = minHeight
    /\ pc = "main"
    /\ disk = [d \in Folders |-> {}]
    /\ (~usePagination => endPage = 0)
    /\ replay = FALSE
    /\ site = [p \in Pages |-> PageResponses]
    /\ server = [u \in URLS |-> ServedResponses]
    /\ unit_in = NoCall
    /\ unit_out = {}

SpecCallback == InitCallback /\ [][Next]_vars

\* =============================================================== claims
\* The CSV rows recorded so far in the current run of process_thread.
RunCsvRows == IF pc = "pool" THEN csv_rows \o page_csv_rows ELSE csv_rows

SuccessRows(rows) == {i \in 1..Len(rows) : rows[i][4] = "OK"}

SuccessHashes(rows) == {rows[i][3].hash : i \in SuccessRows(rows)}

Hashes == {UrlHash(u) : u \in URLS}

\* C1: in one run of process_thread, at most one success outcome is recorded
\* for any content identifier.
C1_AtMostOneSuccessPerIdentifier ==
    \A h \in Hashes :
        Cardinality({i \in SuccessRows(RunCsvRows) : RunCsvRows[i][3].hash = h}) <= 1

\* C2: when process_thread returns, the recorded outcomes plus the duplicate
\* skips are all the candidates found on the fetched pages, and no submitted
\* candidate (a URL of a page) has two outcomes.
C2_OutcomeCompleteness ==
    pc = "return" =>
        /\ Len(csv_rows) + skipped_count = found
        /\ \A i, j \in 1..Len(csv_rows) :
              (csv_rows[i][1] = csv_rows[j][1] /\ csv_rows[i][3].page = csv_rows[j][3].page)
                  => i = j

C2_Witness ==
    /\ pc = "return"
    /\ skipped_count > 0
    /\ csv_rows # <<>>

\* C6: in open-ended mode, when the content of page K equals the content of
\* page K-1, the run stops at page K: nothing of page K is filtered, submitted
\* or counted, the index and the counters keep their values, and no page is
\* requested afterwards.
C6_StopsAtRepeatedPage ==
    [][ /\ ( /\ InfinitePagination
             /\ last_fetch' # last_fetch
             /\ last_fetch.result # PageError
             /\ last_fetch'.page = last_fetch.page + 1
             /\ last_fetch'.result = last_fetch.result )
            => /\ pc' = "return"
               /\ UNCHANGED <<downloaded_hashes, skipped_count, too_small_count,
                              table_rows, csv_rows, page_csv_rows, queue, running,
                              completed, found, fetches, disk, current_page>>
        /\ pc = "return" => (pc' = "main" /\ UNCHANGED <<last_fetch, fetches, found>>)
      ]_vars

C6_Witness ==
    /\ pc = "return"
    /\ InfinitePagination
    /\ last_fetch.page = current_page
    /\ last_fetch.page > startPage
    /\ last_fetch.result = previous_html
    /\ UrlsOf(last_fetch.result) # {}
    /\ csv_rows # <<>>

\* C7: with the update callback, the data rows printed for a page by the
\* incremental renders are the page's rows, each once and in list order.
DataLines(out) == SelectSeq(out, LAMBDA l : l.kind = "row")

RenderAll(rows) == [i \in 1..Len(rows) |-> RenderRow(rows[i])]

C7_IncrementalRenderIsFullRender ==
    update_callback => DataLines(stdout) = RenderAll(page_table_rows)

C7_Witness ==
    /\ update_callback
    /\ pc = "loop"
    /\ Len(page_table_rows) >= 2
    /\ Len(DataLines(stdout)) >= 2

\* C8: outside the download step of a page no unit is queued, running or
\* unhandled, and every recorded success is in the index: the next page is
\* fetched and filtered only after the whole batch was applied.
C8_PageBarrier ==
    pc # "pool" =>
        /\ queue = {} /\ running = {} /\ completed = {}
        /\ SuccessHashes(csv_rows) \subseteq downloaded_hashes

C8_Witness ==
    /\ CanFetchPage
    /\ current_page > startPage
    /\ SuccessHashes(csv_rows) # {}

\* C9: in a run of either scraper, at most maxWorkers download units execute
\* at any moment (a unit executes from the start of its fetch to its return).
C9_BoundedConcurrency == Cardinality(running) <= maxWorkers

\* a page's batch: every worker is busy and a task waits
C9_Witness ==
    /\ pc = "pool"
    /\ Cardinality(running) = maxWorkers
    /\ queue # {}

\* the search-result scraper: every worker is busy and a submitted download waits
C9_GoogleAtCapacity ==
    /\ GoogleExecutorOpen
    /\ Cardinality(running) = maxWorkers
    /\ queue # {}

\* C10: the index never loses an element during a run, and once a page's batch
\* has drained it is the index before the page plus the identifiers of the
\* page's success outcomes.
C10_IndexGrowsBySuccesses ==
    /\ [](((pc = "pool" /\ queue = {} /\ running = {} /\ completed = {}) \/ pc = "loop") =>
            downloaded_hashes = hashes_before_page \cup SuccessHashes(page_csv_rows))
    /\ [][pc # "main" => downloaded_hashes \subseteq downloaded_hashes']_vars

C10_Witness ==
    /\ pc = "loop"
    /\ SuccessHashes(page_csv_rows) # {}
    /\ downloaded_hashes # hashes_before_page
    /\ Len(page_csv_rows) > Cardinality(SuccessRows(page_csv_rows))


\* C3 as stated: the second run on the same source writes no new file, sends
\* no image request and counts every candidate as a duplicate skip.
SecondRunReturns == pc = "return" /\ thread_idx = 2

C3_SecondRunOnlySkips ==
    SecondRunReturns =>
        /\ disk[folder] = disk0
        /\ \A u \in URLS : fetches[u] = 0
        /\ skipped_count = found

\* C3 amended: the second run writes no new file, and every candidate whose
\* identifier had a success outcome in the first run is skipped as a duplicate
\* without a request; the other candidates are the only ones with an outcome.
C3_SecondRunSkipsSuccesses ==
    SecondRunReturns =>
        /\ disk[folder] = disk0
        /\ \A u \in URLS :
              UrlHash(u) \in SuccessHashes(all_csv_rows) =>
                  /\ fetches[u] = 0
                  /\ \A i \in 1..Len(csv_rows) : csv_rows[i][1] # u
        /\ skipped_count + Len(csv_rows) = found

C3_Witness ==
    /\ SecondRunReturns
    /\ SuccessHashes(all_csv_rows) # {}
    /\ skipped_count >= 1
    /\ csv_rows # <<>>

\* C4: download_image never returns success for a fetched body of 1000 bytes
\* or fewer: the outcome is failed and no file is written.
C4_ShortBodyFails ==
    \A res \in unit_out :
        (~unit_in.response.exc /\ unit_in.response.length <= 1000) =>
            /\ res.status = "failed"
            /\ res.file = "none"
            /\ disk[1] = {}

C4_Witness ==
    \E res \in unit_out :
        /\ unit_in.response.status_code = 200
        /\ unit_in.response.length = 1000
        /\ unit_in.response.decodes
        /\ unit_in.response.io = "ok"
        /\ res.status = "failed"

\* The decoded image is narrower or shorter than a configured minimum.
UnitImageBelowMinimum ==
    /\ ~unit_in.response.exc
    /\ unit_in.response.decodes
    /\ \/ minWidth > 0 /\ unit_in.response.width < minWidth
       \/ minHeight > 0 /\ unit_in.response.height < minHeight

UnitTooSmall(res) ==
    /\ res.status = "too_small"
    /\ res.info = ToString(unit_in.response.width) \o "x" \o ToString(unit_in.response.height)
    /\ res.file = "none"
    /\ disk[1] = {}

\* C5 as stated: every body that decodes to an image below a configured
\* minimum yields too_small with the observed WxH and no file, for every URL.
C5_SmallImageAlwaysTooSmall ==
    \A res \in unit_out : UnitImageBelowMinimum => UnitTooSmall(res)

\* C5 amended: for a URL that is not an SVG URL and a response of status 200
\* with more than 1000 bytes, a body that decodes to an image below a
\* configured minimum yields too_small with the observed WxH and no file.
C5_SmallRasterImageTooSmall ==
    \A res \in unit_out :
        ( /\ UnitImageBelowMinimum
          /\ ~IsSvg(unit_in.url)
          /\ unit_in.response.status_code = 200
          /\ unit_in.response.length > 1000 ) => UnitTooSmall(res)

C5_Witness ==
    \E res \in unit_out :
        /\ res.status = "too_small"
        /\ minWidth = 0
        /\ unit_in.response.height < minHeight
        /\ unit_in.response.width > unit_in.response.height


\* The info of an outcome that comes from an exception: of the request, of
\* opening the file, of writing it.
ExceptionInfos == {"timeout", "open", "write"}

\* C11: an exception in one unit becomes the error outcome of that unit; the
\* page's batch still drains with one outcome for every submitted candidate,
\* and process_thread goes on to the next page.
C11_UnitExceptionIsContained ==
    /\ [](\A c \in completed : c.info \in ExceptionInfos => c.status = "error")
    /\ []((pc = "loop" \/ pc = "return") => Len(csv_rows) + skipped_count = found)
    /\ (pc = "pool") ~> (pc = "loop")
    /\ [][(pc = "pool" /\ pc' = "loop") => current_page' = current_page + 1]_vars

C11_Witness ==
    /\ pc = "loop"
    /\ current_page > startPage
    /\ \E i, j \in 1..Len(page_csv_rows) :
          /\ page_csv_rows[i][4] = "error timeout"
          /\ page_csv_rows[j][4] = "OK"


\* C12: a failed page request leaves the index, the outcome lists, the counters,
\* the pool and the files as they were, advances the page counter by one and
\* returns to the head of the loop.
C12_FailedPageIsSkipped ==
    [][ (Len(requested') = Len(requested) + 1 /\ last_fetch'.result = PageError)
            => /\ current_page' = current_page + 1
               /\ pc' = "loop"
               /\ UNCHANGED <<downloaded_hashes, table_rows, csv_rows, skipped_count,
                              too_small_count, queue, running, completed, disk,
                              fetches, found, previous_html>>
      ]_vars

C12_Witness ==
    /\ pc = "loop"
    /\ last_fetch.result = PageError
    /\ current_page = last_fetch.page + 1
    /\ csv_rows # <<>>
    /\ downloaded_hashes # {}
    /\ skipped_count + too_small_count > 0


\* C13: after a call of download_image that does not return success (too_small,
\* failed, error), no file, whole or partial, is at the destination path.
C13_FileOnlyOnSuccess ==
    \A res \in unit_out : res.status # "success" => disk[1] = {}


\* C14: when the forum run has ended and the log file could be opened, the
\* audit log has one row for every candidate that was submitted for download,
\* whatever the outcomes were.
C14_AuditLogHasEveryOutcome ==
    (pc = "done" /\ audit_log.written # "failed") =>
        Len(audit_log.rows) = all_found - total_skipped


\* C15: in both scrapers a candidate skipped as a duplicate has no audit row:
\* the audit rows of a URL are never more than the downloads started for it.
RowsOfUrl(rows, u) == {i \in 1..Len(rows) : rows[i][1] = u}

C15_NoAuditRowForDuplicate ==
    \A u \in URLS : Cardinality(RowsOfUrl(RunCsvRows, u)) <= fetches[u]


\* The status texts of the recorded outcomes, by kind.
FailedTexts == {"failed Invalid response"}

ErrorTexts == {"error " \o i : i \in ExceptionInfos}

OutcomesOf(rows, texts) == Cardinality({i \in 1..Len(rows) : rows[i][4] \in texts})

TooSmallOutcomes(rows) ==
    Len(rows) - OutcomesOf(rows, {"OK"} \cup FailedTexts \cup ErrorTexts)

\* C16: in the summary at the end of the forum run the four tallies are the
\* numbers of success, duplicate-skipped, too_small and failed-or-error
\* candidates of all pages of all sources, and they add up to all candidates.
C16_SummaryTallies ==
    pc = "done" =>
        /\ summary.success = OutcomesOf(all_csv_rows, {"OK"})
        /\ summary.too_small = TooSmallOutcomes(all_csv_rows)
        /\ summary.failed = OutcomesOf(all_csv_rows, FailedTexts \cup ErrorTexts)
        /\ summary.skipped = all_found - Len(all_csv_rows)
        /\ summary.success + summary.skipped + summary.too_small + summary.failed
              = all_found

C16_Witness ==
    /\ pc = "done"
    /\ summary.kind = "total"
    /\ summary.success >= 1
    /\ summary.skipped >= 1
    /\ summary.too_small >= 1
    /\ summary.failed >= 1
    /\ \E i, j \in 1..Len(all_csv_rows) :
          all_csv_rows[i][3].page # all_csv_rows[j][3].page


\* C19: when the folder of a source cannot be created, only that source is
\* given up (nothing of it was requested or submitted): the program does not
\* end while sources listed after it are left unprocessed.
C19_MakedirsFailureIsConfined ==
    pc = "crashed" =>
        /\ thread_idx = Len(thread_urls)
        /\ queue = {} /\ running = {} /\ completed = {}


\* The pages requested so far are the first pages of startPage..endPage, in
\* ascending order, and all of them once process_thread returns.
RequestsTheRange ==
    /\ Len(requested) <= endPage - startPage + 1
    /\ \A i \in 1..Len(requested) : requested[i] = startPage + i - 1
    /\ pc = "return" => Len(requested) = endPage - startPage + 1

\* C17 as stated: with pagination and any startPage <= endPage, each page of
\* startPage..endPage is requested exactly once, in ascending order, and no
\* other page.
C17_RangeRequestedOnce ==
    (usePagination /\ startPage <= endPage) => RequestsTheRange

\* C17 amended: the same for startPage <= endPage with endPage other than 0.
C17_NonZeroRangeRequestedOnce ==
    (usePagination /\ startPage <= endPage /\ endPage # 0) => RequestsTheRange

C17_Witness ==
    /\ pc = "return"
    /\ usePagination
    /\ startPage = 0
    /\ endPage = MaxPage
    /\ Len(requested) = MaxPage + 1
    /\ csv_rows # <<>>

\* C18: without pagination there is exactly one page iteration, a request of
\* the thread URL itself, whatever its result and whatever startPage and
\* endPage are; after it the loop is left.
C18_SinglePageIteration ==
    ~usePagination =>
        /\ Len(requested) <= 1
        /\ \A i \in 1..Len(requested) : requested[i] = PageNone
        /\ pc \in {"pool", "return"} => requested = <<PageNone>>
        /\ (pc = "loop" /\ requested # <<>>) => PagesExhausted

C18_Witness ==
    /\ ~usePagination
    /\ pc = "return"
    /\ last_fetch.result = PageError
    /\ requested = <<PageNone>>
    /\ startPage = 0
    /\ endPage = MaxPage


\* The candidates of the page just parsed whose identifier is in the index.
DuplicatesOf(html, hashes) == {u \in UrlsOf(html) : UrlHash(u) \in hashes}

\* C20: when a page is filtered, a candidate whose identifier is in the index
\* is not submitted and adds one to the duplicate-skip count, and the index
\* stays as it is; while the page's batch runs no request is sent, no file is
\* written and no outcome is recorded for an identifier the index held.
C20_DuplicateIsOnlyCounted ==
    /\ [][ (pc = "loop" /\ pc' = "pool") =>
              LET dups == DuplicatesOf(last_fetch'.result, downloaded_hashes) IN
              /\ skipped_count' = skipped_count + Cardinality(dups)
              /\ \A t \in queue' : t.url \notin dups
              /\ page_csv_rows' = <<>>
              /\ UNCHANGED <<downloaded_hashes, fetches, disk, csv_rows, table_rows,
                             running, completed>>
         ]_vars
    /\ [][ pc = "pool" =>
              /\ \A u \in URLS :
                    fetches'[u] > fetches[u] => UrlHash(u) \notin hashes_before_page
              /\ \A f \in disk'[folder] \ disk[folder] : f.hash \notin hashes_before_page
              /\ UNCHANGED skipped_count
         ]_vars
    /\ [](pc = "pool" =>
              \A i \in 1..Len(page_csv_rows) :
                  page_csv_rows[i][3].hash \notin hashes_before_page)

C20_Witness ==
    /\ pc = "pool"
    /\ DuplicatesOf(last_fetch.result, hashes_before_page) # {}
    /\ UrlsOf(last_fetch.result) # DuplicatesOf(last_fetch.result, hashes_before_page)
    /\ skipped_count >= 1
    /\ page_csv_rows # <<>>


\* ------------------------------------------------------------------ C21
\* A page request that ends an open-ended run because of repeated content
RepeatEndsRun ==
    /\ pc = "loop"
    /\ pc' = "return"
    /\ Len(requested') = Len(requested) + 1

\* C21: in open-ended mode the content of page K is compared only with the
\* content of page K-1, the page attempted immediately before it, whatever the
\* sequence of successful and failed page fetches: a run that ends at page K
\* because of repeated content got, for page K, the content of the request made
\* immediately before, and not only that of an earlier page.
C21_ComparedWithImmediatelyPriorPage ==
    [][ RepeatEndsRun => last_fetch'.result = last_fetch.result ]_vars


\* ------------------------------------------------------------------ C22
AttemptedOnPage(u) ==
    \/ \E t \in running : t.url = u
    \/ \E c \in completed : c.task.url = u
    \/ \E i \in 1..Len(page_csv_rows) : page_csv_rows[i][1] = u

SucceededBefore(u) == \E i \in 1..Len(csv_rows) : csv_rows[i][1] = u /\ csv_rows[i][4] = "OK"

FilesWritten == disk[folder] \ disk0

\* C23: in extract_and_download_images, for any content identifier at most one
\* success outcome is recorded and at most one file is written during a run,
\* also when the same full-image URL is extracted for a later thumbnail while
\* an earlier download of that URL is still in flight.
C23_GoogleOneSuccessPerIdentifier ==
    pc \in {"g_extract", "g_poll", "g_drain", "g_return"} =>
        \A h \in Hashes :
            /\ Cardinality({i \in SuccessRows(csv_rows) : csv_rows[i][3].hash = h}) <= 1
            /\ Cardinality({f \in FilesWritten : f.hash = h}) <= 1


\* ------------------------------------------------------------------ C24
\* C24: for each page, the table header is rendered exactly once and before
\* any data row of the page, and the footer exactly once, only after all the
\* page's download units have drained and all its rows were printed; a footer
\* is never rendered for a page whose header was not rendered, with or without
\* an update callback.
C24_HeaderOnceFooterOnce ==
    stdout # <<>> =>
        /\ stdout[1].kind = "header"
        /\ \A i \in 2..Len(stdout) : stdout[i].kind # "header"
        /\ \A i \in 1..Len(stdout) : stdout[i].kind = "footer" =>
              /\ i = Len(stdout)
              /\ pc # "pool"
              /\ DataLines(stdout) = RenderAll(page_table_rows)


\* ------------------------------------------------------------------ C25
\* the index, the outcome lists and the counters of process_thread
sharedState == <<downloaded_hashes, table_rows, csv_rows, page_table_rows, page_csv_rows,
                 skipped_count, too_small_count>>

\* what the worker threads change: the units in flight, the requests sent, the
\* files of the folder
workerState == <<running, fetches, disk>>

\* C25: the index, the outcome lists and the counters are read and written by
\* the coordinating thread only.  A step of a worker thread leaves them alone,
\* and its outcome is the one download_image computes from the task's own
\* arguments and the response; a step that changes them is a step of the
\* coordinating thread, during which no worker state changes.
C25_SharedStateOnCoordinatingThread ==
    /\ [][ workerState' # workerState => UNCHANGED sharedState ]_vars
    /\ [][ sharedState' # sharedState => UNCHANGED workerState ]_vars
    /\ [][ \A t \in running \ running' :
              \E r \in server[t.url] : \E c \in completed' \ completed :
                 LET res == DownloadImage(t.url, t.page, t.hash, minWidth, minHeight, r)
                 IN  c = [task |-> t, status |-> res.status, filename |-> res.filename,
                          info |-> res.info]
       ]_vars

\* one unit is still in flight while the outcome of another one was recorded
\* and its hash has entered the index
C25_Witness ==
    /\ pc = "pool"
    /\ running # {}
    /\ page_csv_rows # <<>>
    /\ downloaded_hashes # hashes_before_page


\* ------------------------------------------------------------------ C26
UnitsInFlight == queue \cup running \cup {c.task : c \in completed}

\* C26: in a run over several sources the sources are processed one after
\* another.  Units exist only inside the page batch of the source main is at; a
\* page is requested and a file is written only for that source; and when main
\* moves to the next source no unit of the preceding one is left.
C26_SourcesAreSequential ==
    /\ [](UnitsInFlight # {} => pc = "pool" /\ folder = thread_urls[thread_idx])
    /\ [][ (folder' # folder \/ thread_idx' # thread_idx) =>
               UnitsInFlight = {} /\ UnitsInFlight' = {} ]_vars
    /\ [][ Len(requested') > Len(requested) =>
               UnitsInFlight = {} /\ folder = thread_urls[thread_idx] ]_vars
    /\ [][ \A d \in Folders : disk'[d] # disk[d] =>
               d = folder /\ folder = thread_urls[thread_idx] ]_vars

\* the second source has units running after the first source wrote a file
C26_Witness ==
    /\ thread_idx = 2
    /\ pc = "pool"
    /\ running # {}
    /\ disk[thread_urls[1]] # {}
    /\ folder = thread_urls[2]
    /\ thread_urls[1] # thread_urls[2]


\* ------------------------------------------------------------------ C27
\* A body of status 200 and more than 1000 bytes that is no image, fetched for
\* a URL that is not an SVG URL while a minimum is configured.
UnitUndecodable ==
    /\ ~IsSvg(unit_in.url)
    /\ (minWidth > 0 \/ minHeight > 0)
    /\ ~unit_in.response.exc
    /\ unit_in.response.status_code = HttpOk
    /\ unit_in.response.length > MinBodyBytes
    /\ ~unit_in.response.decodes

\* C27: for such a body download_image skips the dimension check: the outcome
\* is never too_small or failed, it is success with the body written to the
\* destination path, and an error outcome comes from the write alone.
C27_UndecodableBodyIsWritten ==
    \A res \in unit_out :
        UnitUndecodable =>
            /\ res.status \notin {"too_small", "failed"}
            /\ res.status = "error" => unit_in.response.io # "ok"
            /\ unit_in.response.io = "ok" =>
                  /\ res.status = "success"
                  /\ res.info = ToString(unit_in.response.length)
                  /\ res.file = "written"
                  /\ disk[1] = {res.filename}

C27_Witness ==
    \E res \in unit_out :
        /\ UnitUndecodable
        /\ minWidth > 0 /\ minHeight > 0
        /\ unit_in.response.io = "ok"
        /\ res.status = "success"
        /\ disk[1] # {}


\* ------------------------------------------------------------------ C28
RenderedTexts == {"OK"} \cup FailedTexts \cup ErrorTexts

\* the table line of a recorded outcome (a CSV row: URL, size, filename, status)
LineOfOutcome(r) == [kind |-> "row", file |-> r[3], size |-> r[2], status |-> r[4]]

LinesOfOutcomes(rows) ==
    LET shown == SelectSeq(rows, LAMBDA r : r[4] \in RenderedTexts)
    IN  [i \in 1..Len(shown) |-> LineOfOutcome(shown[i])]

ClickFailureTexts == {"timeout", "error: msg"}

\* C29: in the summary of the search-result scraper the failed/error tally is
\* the number of failed plus error outcomes (the thumbnails whose click failed
\* taken as errors), and the four tallies count disjoint sets of candidates:
\* together they count no thumbnail twice.
C29_GoogleTalliesAreDisjoint ==
    (pc = "g_done" /\ summary.kind = "total") =>
        /\ summary.failed =
              OutcomesOf(csv_rows, FailedTexts \cup ErrorTexts \cup ClickFailureTexts)
        /\ summary.success + summary.skipped + summary.too_small + summary.failed <= idx


\* ------------------------------------------------------------------ C30
\* the naming convention of the destination files: p<label>_<identifier>.jpg
\* or .svg
FollowsConvention(name) ==
    /\ name.ext \in {".jpg", ".svg"}
    /\ Len(name.parts) = 2
    /\ name.parts[1].kind = "p"
    /\ name.parts[2].kind = "id"

\* C30: seeding inserts exactly the identifiers embedded in the listed files
\* that follow the naming convention; a name that does not follow it inserts
\* nothing.
C30_SeedInsertsConventionalNamesOnly ==
    \A seeded \in unit_out :
        seeded = {name.parts[2] : name \in {n \in unit_in : FollowsConvention(n)}}


\* ------------------------------------------------------------------ C31
\* C31: in single-page and fixed-range modes, when every request returns or
\* times out and the workers are scheduled, process_thread terminates: once it
\* is in its loop it eventually returns, whatever the outcomes of the page
\* fetches and of the downloads, and it returns past the last configured page
\* with the pool drained.
C31_ConfiguredPagesTerminate ==
    /\ (~InfinitePagination /\ pc = "loop") ~> (pc = "return")
    /\ []((~InfinitePagination /\ pc = "return") =>
             /\ current_page = (IF usePagination THEN endPage ELSE startPage) + 1
             /\ queue = {} /\ running = {} /\ completed = {})

\* a fixed range whose last page failed, after an earlier page had downloads
C31_Witness ==
    /\ pc = "return"
    /\ usePagination
    /\ ~InfinitePagination
    /\ Len(requested) = MaxPage
    /\ last_fetch.result = PageError
    /\ csv_rows # <<>>


\* ------------------------------------------------------------------ C32
\* a pass of the loop of an open-ended run that requests a page
OpenEndedRequest == InfinitePagination /\ Len(requested') = Len(requested) + 1

\* C32: in open-ended mode the run ends exactly when a successfully fetched
\* page has the content of the most recently successfully fetched page before
\* it (previous_html, which a failed request leaves as it is).  A failed
\* request never ends the run: the loop goes on with the next page, and the
\* page counter never exhausts it.
C32_OpenEndedEndsOnRepeatOnly ==
    /\ [][ OpenEndedRequest =>
             IF last_fetch'.result = PageError
             THEN /\ UNCHANGED previous_html
                  /\ pc' = "loop"
                  /\ current_page' = current_page + 1
             ELSE /\ previous_html' = last_fetch'.result
                  /\ (pc' = "return") <=>
                        (previous_html # NoHtml /\ last_fetch'.result = previous_html)
       ]_vars
    /\ [][ (InfinitePagination /\ pc' = "return" /\ pc # "return") => OpenEndedRequest ]_vars
    /\ []((InfinitePagination /\ pc = "loop") => ~PagesExhausted)

\* page startPage was downloaded, the next request failed, and the page after
\* it had the content of page startPage: the run ended there
C32_Witness ==
    /\ pc = "return"
    /\ InfinitePagination
    /\ Len(requested) = 3
    /\ csv_rows # <<>>
    /\ \A i \in 1..Len(csv_rows) : csv_rows[i][3].page = startPage
    /\ skipped_count = 0
    /\ found = Cardinality(UrlsOf(previous_html))


\* ------------------------------------------------------------------ C33
\* the destination path of a task's unit (26-29)
PathOf(t) == Filename(t.url, t.page, t.hash)

\* C33: within one page no two submitted tasks have the same content
\* identifier, and no two units of the page write to the same destination
\* path, for every set of distinct candidate URLs found on the page.
C33_DistinctIdentifiersOnPage ==
    pc = "pool" =>
        \A t1, t2 \in UnitsInFlight :
            (t1.hash = t2.hash \/ PathOf(t1) = PathOf(t2)) => t1 = t2


\* ------------------------------------------------------------------ C34
\* the rows recorded for the thumbnail with index k
RowsOfThumbnail(k) == {i \in 1..Len(csv_rows) : csv_rows[i][3].page = k}

\* the rows that record the outcome of a download
OutcomeRows ==
    {i \in 1..Len(csv_rows) :
        csv_rows[i][4] \notin ClickFailureTexts \cup {"already downloaded"}}

GoogleRunning == pc \in {"g_extract", "g_poll", "g_drain", "g_return", "g_done"}

\* C34: in extract_and_download_images the outcome of every submitted download
\* is recorded exactly once.  A future that is still pending has no row; no
\* thumbnail ever has two rows; and when the function returns no future is
\* left and every submitted download has its row.
C34_GoogleOutcomeRecordedOnce ==
    GoogleRunning =>
        /\ \A t \in UnitsInFlight : RowsOfThumbnail(t.page) = {}
        /\ \A k \in 1..idx : Cardinality(RowsOfThumbnail(k)) <= 1
        /\ Cardinality(OutcomeRows) + Cardinality(UnitsInFlight) = found - skipped_count
        /\ pc \in {"g_return", "g_done"} =>
              /\ UnitsInFlight = {}
              /\ \A k \in 1..idx : Cardinality(RowsOfThumbnail(k)) = 1

\* the first download was recorded while polling, the second is pending
C34_Witness ==
    /\ pc = "g_poll"
    /\ idx = 2
    /\ \E i \in OutcomeRows : csv_rows[i][3].page = 1
    /\ \E t \in UnitsInFlight : t.page = 2


\* ------------------------------------------------------------------ C35
\* C35: download_image returns success only for a response of status exactly
\* 200 with a body of more than 1000 bytes; a response with any other status,
\* another 2xx status included, yields failed and no file, whatever the body.
C35_SuccessNeedsStatus200 ==
    \A res \in unit_out :
        /\ res.status = "success" =>
              /\ ~unit_in.response.exc
              /\ unit_in.response.status_code = HttpOk
              /\ unit_in.response.length > MinBodyBytes
        /\ (~unit_in.response.exc /\ unit_in.response.status_code # HttpOk) =>
              /\ res.status = "failed"
              /\ res.info = "Invalid response"
              /\ res.file = "none"
              /\ disk[1] = {}

\* status 204 with a long body that is a large enough image
C35_Witness ==
    \E res \in unit_out :
        /\ unit_in.response.status_code = 204
        /\ unit_in.response.length > MinBodyBytes
        /\ unit_in.response.decodes
        /\ unit_in.response.width = 3 /\ unit_in.response.height = 3
        /\ unit_in.response.io = "ok"
        /\ res.status = "failed"

====
